---- MODULE Spec2Model ----
(***************************************************************************)
(* uniqush-conn msgcenter: the connection registry (treeBasedConnMap) and  *)
(* the service center's event loop (serviceCenter.process) with the tasks  *)
(* that talk to it (NewConn, serveConn, SendMessage, error-set teardown).  *)
(***************************************************************************)
EXTENDS Integers, Sequences, FiniteSets, TLC

\* ------------------------------------------------------------------------
\* Bounds of the model
\* ------------------------------------------------------------------------

\* How many NewConn calls are made over one behaviour.
MaxNewConns == 3

\* How many SendMessage calls are made over one behaviour.
MaxWrites == 1

\* How many SendMessage calls are made over one behaviour that follows a
\* failed send.
MaxErrWrites == 2

\* How many SendMessage calls are made over one behaviour of the push path.
MaxPushWrites == 2

\* The most delivery points the push backend reports for a user.
MaxDeliveryPoints == 2

\* How many subscribe requests the connections make over one behaviour.
MaxSubReqs == 1

\* How many messages the connections' readers read over one behaviour.
MaxReads == 2

\* The longest TTL of a forward request and the longest MaxTTL of a forward
\* handler, in units of half a second.
MaxDuration == 5

\* time.Second, in units of half a second.
Second == 2

\* ------------------------------------------------------------------------
\* Connections (server.Conn objects).  A connection is an object identity
\* with a fixed Username(), UniqId() and Visible().  Two distinct objects
\* may carry the same (username, uniqId).
\* ------------------------------------------------------------------------

ConnTable ==
    << [user |-> "u1", id |-> "a", visible |-> TRUE],
       [user |-> "u1", id |-> "b", visible |-> FALSE],
       [user |-> "u1", id |-> "a", visible |-> TRUE],
       [user |-> "u2", id |-> "a", visible |-> TRUE],
       [user |-> "u2", id |-> "b", visible |-> TRUE],
       [user |-> "", id |-> "a", visible |-> TRUE],
       [user |-> "u:1", id |-> "a", visible |-> TRUE],
       [user |-> "u\n1", id |-> "a", visible |-> TRUE] >>

Conns == 1..Len(ConnTable)

\* The connections offered to the service center and to the registry where
\* the caps are drawn from their choices: the first four.
Offered == 1..4

\* The connections offered under the caps (2, 2, 3): those of the two users.
CapsOffered == 1..5

Username(c) == ConnTable[c].user
UniqId(c) == ConnTable[c].id
Visible(c) == ConnTable[c].visible

Users == {Username(c) : c \in CapsOffered}

\* The characters of the usernames.
Chars(str) ==
    CASE str = "" -> << >>
      [] str = "u1" -> << "u", "1" >>
      [] str = "u2" -> << "u", "2" >>
      [] str = "u:1" -> << "u", ":", "1" >>
      [] str = "u\n1" -> << "u", "\n", "1" >>

\* strings.Contains(s, ch), of a string of one character ch.
Contains(str, ch) == \E i \in 1..Len(Chars(str)) : Chars(str)[i] = ch

\* The values the three capacity settings of a ServiceConfig are drawn from.
\* A value <= 0 disables the check.
MaxNrConnsChoices == {0, 2}
MaxNrConnsPerUserChoices == {0, 1}
MaxNrUsersChoices == {0, 1}

\* The values the two caps handed to AddConn are drawn from when the
\* registry is exercised on its own.
MapMaxNrConnsPerUserChoices == {-1, 0, 1, 2}
MapMaxNrUsersChoices == {-1, 0, 1, 2}

VARIABLES
    config,      \* ServiceConfig: MaxNrConns, MaxNrUsers, MaxNrConnsPerUser
    tree,        \* treeBasedConnMap.tree: the set of connListItem in the LLRB
    nrConns,     \* process(): the local counter nrConns
    newConn,     \* per connection: where its NewConn call stands
    reader,      \* per connection: where its serveConn task stands
    nrNewConns,  \* NewConn calls made so far
    nrWrites,    \* SendMessage calls made so far
    teardown,    \* per write: the errConns its teardown task has yet to post
    nrClose,     \* per connection: calls of conn.Close()
    nrLogout,    \* per connection: logout hooks dispatched (reportLogout)
    nrLogin,     \* per connection: login hooks dispatched (reportLogin)
    nrError,     \* per connection: error hooks dispatched (reportError)
    nrFallback,  \* push-fallback tasks launched so far
    last,        \* the event the loop serviced last, with what it saw and replied
    mapLast,     \* SpecMap: the registry call made last
    mapPrev,     \* SpecMap: the registry call made before mapLast
    joinLog,     \* SpecCaps: the NewConn calls in order, each with its reply
    errWrite,    \* SpecErr: the write whose send failed, and what came after
    call,        \* the arguments and results of a function applied on its own
    loop,        \* SpecPush: where process() stands
    subReqs,     \* SpecPush: senders blocked on subReqChan
    writeReqs,   \* SpecPush: SendMessage callers blocked on writeReqChan
    nrSubReqs,   \* SpecPush: subscribe requests made so far
    rlock,       \* SpecPush: the tasks holding pushServiceLock for reading
    tasks,       \* SpecPush: the push-fallback tasks, in launch order
    serve        \* SpecReader: per connection, what its serveConn task did

vars == << config, tree, nrConns, newConn, reader, nrNewConns, nrWrites,
           teardown, nrClose, nrLogout, nrLogin, nrError, nrFallback, last,
           mapLast, mapPrev, joinLog, errWrite, call, loop, subReqs,
           writeReqs, nrSubReqs, rlock, tasks, serve >>

\* The variables of the push path.
pushVars == << loop, subReqs, writeReqs, nrSubReqs, rlock, tasks >>

\* The variables only one of the further specifications moves.
sideVars == << joinLog, errWrite, call, pushVars, serve >>

loopVars == << nrConns, newConn, reader, nrNewConns, nrWrites, teardown,
               nrClose, nrLogout, nrLogin, nrError, nrFallback, last >>

\* ------------------------------------------------------------------------
\* The registry: src/unnamed/part_000
\* ------------------------------------------------------------------------

\* connKey(conn)
connKey(conn) == Username(conn)

\* connListItem.key(): the item's name when its list is empty, else the key
\* of the first connection of the list.
key(item) ==
    IF Len(item.list) = 0 THEN item.name ELSE connKey(item.list[1])

\* llrb.Get: the item of the tree that compares equal to the given one
\* (neither Less than the other), as a set of at most one item.
Get(t, k) == {x \in t : key(x) = key(k)}

\* llrb.ReplaceOrInsert
ReplaceOrInsert(t, item) == (t \ Get(t, item)) \cup {item}

\* llrb.Delete: the tree without the item, and whether an item was deleted.
Delete(t, k) == [tree |-> t \ Get(t, k), found |-> Get(t, k) # {}]

\* GetConn(user): the list of the user's item; nil when there is none.
GetConn(t, user) ==
    LET hit == Get(t, [name |-> user, list |-> << >>])
    IN  IF hit = {}
        THEN [nil |-> TRUE, list |-> << >>]
        ELSE [nil |-> FALSE, list |-> (CHOOSE x \in hit : TRUE).list]

HasUniqId(cl, conn) == \E i \in 1..Len(cl) : UniqId(cl[i]) = UniqId(conn)

\* A variant of AddConn that appends without the scan for an equal uniqId.
AddConnNoScan(t, conn, maxNrConnsPerUser, maxNrUsers) ==
    LET got == GetConn(t, connKey(conn))
        cl == got.list
    IN  IF got.nil /\ maxNrUsers > 0 /\ Cardinality(t) >= maxNrUsers
        THEN [err |-> "ErrTooManyUsers", tree |-> t]
        ELSE IF maxNrConnsPerUser > 0 /\ Len(cl) >= maxNrConnsPerUser
        THEN [err |-> "ErrTooManyConnForThisUser", tree |-> t]
        ELSE [err |-> "nil",
              tree |-> ReplaceOrInsert(t, [name |-> "", list |-> Append(cl, conn)])]

\* A variant of AddConn that takes any maxNrUsers but 0 as a cap.
AddConnNegativeCap(t, conn, maxNrConnsPerUser, maxNrUsers) ==
    LET got == GetConn(t, connKey(conn))
        cl == got.list
    IN  IF got.nil /\ maxNrUsers # 0 /\ Cardinality(t) >= maxNrUsers
        THEN [err |-> "ErrTooManyUsers", tree |-> t]
        ELSE IF maxNrConnsPerUser > 0 /\ Len(cl) >= maxNrConnsPerUser
        THEN [err |-> "ErrTooManyConnForThisUser", tree |-> t]
        ELSE IF HasUniqId(cl, conn)
        THEN [err |-> "nil", tree |-> t]
        ELSE [err |-> "nil",
              tree |-> ReplaceOrInsert(t, [name |-> "", list |-> Append(cl, conn)])]

\* AddConn(conn, maxNrConnsPerUser, maxNrUsers): the error and the new tree.
AddConn(t, conn, maxNrConnsPerUser, maxNrUsers) ==
    LET got == GetConn(t, connKey(conn))
        cl == got.list
    IN  IF got.nil /\ maxNrUsers > 0 /\ Cardinality(t) >= maxNrUsers
        THEN [err |-> "ErrTooManyUsers", tree |-> t]
        ELSE IF maxNrConnsPerUser > 0 /\ Len(cl) >= maxNrConnsPerUser
        THEN [err |-> "ErrTooManyConnForThisUser", tree |-> t]
        ELSE IF HasUniqId(cl, conn)
        THEN [err |-> "nil", tree |-> t]
        ELSE [err |-> "nil",
              tree |-> ReplaceOrInsert(t, [name |-> "", list |-> Append(cl, conn)])]

\* The value of i after "i := -1; for i, c = range cl { if equal uniqId
\* { break } }", as a 1-based index: the first position with an equal
\* uniqId, else the position the range ended on, the last one (0 for an
\* empty list, the -1 of the source).
ScanIndex(cl, conn) ==
    IF HasUniqId(cl, conn)
    THEN CHOOSE i \in 1..Len(cl) :
            /\ UniqId(cl[i]) = UniqId(conn)
            /\ \A j \in 1..(i - 1) : UniqId(cl[j]) # UniqId(conn)
    ELSE Len(cl)

\* cl[i] = cl[len(cl)-1]; cl = cl[:len(cl)-1]
SwapWithLast(cl, i) ==
    IF i = Len(cl)
    THEN SubSeq(cl, 1, Len(cl) - 1)
    ELSE SubSeq(cl, 1, i - 1) \o << cl[Len(cl)] >> \o SubSeq(cl, i + 1, Len(cl) - 1)

\* A variant of DelConn that takes the connection out of the list but keeps
\* the item when the list had one connection.
DelConnKeepItem(t, conn) ==
    LET got == GetConn(t, connKey(conn))
        cl == got.list
        i == ScanIndex(cl, conn)
    IN  IF got.nil \/ i < 1
        THEN [deleted |-> FALSE, tree |-> t]
        ELSE [deleted |-> TRUE,
              tree |-> (t \ Get(t, [name |-> connKey(conn), list |-> cl]))
                         \cup {[name |-> connKey(conn), list |-> SwapWithLast(cl, i)]}]

\* DelConn(conn): whether a connection was deleted, and the new tree.
DelConn(t, conn) ==
    LET got == GetConn(t, connKey(conn))
        cl == got.list
        i == ScanIndex(cl, conn)
    IN  IF got.nil
        THEN [deleted |-> FALSE, tree |-> t]
        ELSE IF i < 1
        THEN [deleted |-> FALSE, tree |-> t]
        ELSE IF Len(cl) = 1
        THEN LET d == Delete(t, [name |-> connKey(conn), list |-> cl])
             IN  [deleted |-> d.found, tree |-> d.tree]
        ELSE LET rest == SwapWithLast(cl, i)
                 item == [name |-> connKey(conn), list |-> rest]
             IN  [deleted |-> TRUE,
                  tree |-> IF Len(rest) = 0
                           THEN Delete(t, item).tree
                           ELSE ReplaceOrInsert(t, item)]

\* newTreeBasedConnMap()
newTreeBasedConnMap == {}

\* ------------------------------------------------------------------------
\* What the registry holds, as its callers see it
\* ------------------------------------------------------------------------

Range(s) == {s[i] : i \in 1..Len(s)}

\* The connections the registry holds for a user.
ConnsOf(t, user) == Range(GetConn(t, user).list)

\* The registry as its set of entries: a mapping from the key of each item
\* to the set of connections of its list.
View(t) == [u \in {key(x) : x \in t} |-> ConnsOf(t, u)]

\* The sum of the entry list lengths.
RECURSIVE SumLen(_)
SumLen(t) ==
    IF t = {} THEN 0
    ELSE LET x == CHOOSE y \in t : TRUE
         IN  Len(x.list) + SumLen(t \ {x})

\* The messages the readers of the connections cs have read.
RECURSIVE SumReads(_)
SumReads(cs) ==
    IF cs = {} THEN 0
    ELSE LET c == CHOOSE x \in cs : TRUE
         IN  serve[c].reads + SumReads(cs \ {c})

\* Whether the registry holds a connection with conn's username and uniqId.
Member(t, conn) == HasUniqId(GetConn(t, connKey(conn)).list, conn)

\* ------------------------------------------------------------------------
\* The service center: src/unnamed/part_001
\* ------------------------------------------------------------------------

NoEvent ==
    [kind |-> "none", conn |-> 0, user |-> "", err |-> "nil", deleted |-> FALSE,
     pre |-> {}, preNr |-> 0, res |-> << >>, launched |-> 0]

NoMapOp == [op |-> "none", conn |-> 0, err |-> "nil", deleted |-> FALSE, pre |-> {}]

\* No write has had a failed send yet.  Of the first write with exactly one
\* failed send: n its number of recipients, conn the connection whose send
\* failed, user its target, resErr whether the Result of conn carries the
\* error, hooks the error hooks dispatched for it, torn whether the leave
\* its teardown task posts has been serviced, gone whether conn was out of
\* the registry right after that, others whether another connection of the
\* user has joined or posted a leave since, next the number of recipients
\* of the first later write to the user made after torn and without others
\* (-1 before).
NoErrWrite ==
    [n |-> 0, conn |-> 0, user |-> "", resErr |-> FALSE, hooks |-> 0,
     torn |-> FALSE, gone |-> FALSE, others |-> FALSE, next |-> -1]

\* No function is being applied on its own.
NoCall == [fn |-> "none"]

\* serveConn has read nothing, dispatched nothing and posted nothing.
NoServe == [reads |-> 0, hooks |-> 0, err |-> "nil", leaves |-> << >>]

\* newServiceCenter (but for the configuration): the channels are empty, process() starts with an empty
\* connMap and nrConns = 0; no NewConn or SendMessage call has been made.
InitState ==
    /\ tree = newTreeBasedConnMap
    /\ nrConns = 0
    /\ newConn = [c \in Conns |-> "idle"]
    /\ reader = [c \in Conns |-> "none"]
    /\ nrNewConns = 0
    /\ nrWrites = 0
    /\ teardown = [w \in 1..MaxWrites |-> << >>]
    /\ nrClose = [c \in Conns |-> 0]
    /\ nrLogout = [c \in Conns |-> 0]
    /\ nrLogin = [c \in Conns |-> 0]
    /\ nrError = [c \in Conns |-> 0]
    /\ nrFallback = 0
    /\ last = NoEvent
    /\ mapLast = NoMapOp
    /\ mapPrev = NoMapOp
    /\ joinLog = << >>
    /\ errWrite = NoErrWrite
    /\ loop = "select"
    /\ subReqs = 0
    /\ writeReqs = 0
    /\ nrSubReqs = 0
    /\ rlock = {}
    /\ tasks = << >>
    /\ serve = [c \in Conns |-> NoServe]

Init ==
    /\ config \in [MaxNrConns : MaxNrConnsChoices,
                    MaxNrUsers : MaxNrUsersChoices,
                    MaxNrConnsPerUser : MaxNrConnsPerUserChoices]
    /\ call = NoCall
    /\ InitState

\* A variant of the join case that lets one connection past maxNrConns
\* (nrConns > maxNrConns in place of nrConns >= maxNrConns).
ProcessJoinOffByOne(t, n, conn, maxNrConns, maxNrConnsPerUser, maxNrUsers) ==
    IF maxNrConns > 0 /\ n > maxNrConns
    THEN [err |-> "ErrTooManyConns", tree |-> t, nrConns |-> n]
    ELSE LET r == AddConn(t, conn, maxNrConnsPerUser, maxNrUsers)
         IN  IF r.err # "nil"
             THEN [err |-> r.err, tree |-> t, nrConns |-> n]
             ELSE [err |-> "nil", tree |-> r.tree, nrConns |-> n + 1]

\* process(), case connInEvt: the error replied on errChan, the new tree and
\* the new nrConns.
ProcessJoin(t, n, conn, maxNrConns, maxNrConnsPerUser, maxNrUsers) ==
    IF maxNrConns > 0 /\ n >= maxNrConns
    THEN [err |-> "ErrTooManyConns", tree |-> t, nrConns |-> n]
    ELSE LET r == AddConn(t, conn, maxNrConnsPerUser, maxNrUsers)
         IN  IF r.err # "nil"
             THEN [err |-> r.err, tree |-> t, nrConns |-> n]
             ELSE [err |-> "nil", tree |-> r.tree, nrConns |-> n + 1]

\* A variant of the test of the username that looks at its length only.
InvalidUsernameEmptyOnly(usr) == Len(Chars(usr)) = 0

\* NewConn(conn), the test of the username: "len(usr) == 0 ||
\* strings.Contains(usr, ":") || strings.Contains(usr, "\n")".
InvalidUsername(usr) ==
    Len(Chars(usr)) = 0 \/ Contains(usr, ":") \/ Contains(usr, "\n")

\* NewConn(conn): an invalid username is returned as an error at once; else
\* the join event is received by the
\* loop and serviced, the reply is received from errChan; on a nil reply
\* the reader is started (go self.serveConn(conn)) and the login hook is
\* dispatched (self.reportLogin).
NewConn(c) ==
    /\ newConn[c] = "idle"
    /\ IF InvalidUsername(Username(c))
       THEN /\ newConn' = [newConn EXCEPT ![c] = "invalid"]
            /\ UNCHANGED << tree, nrConns, reader, nrLogin, last >>
       ELSE
       LET r == ProcessJoin(tree, nrConns, c, config.MaxNrConns,
                            config.MaxNrConnsPerUser, config.MaxNrUsers)
       IN  /\ tree' = r.tree
           /\ nrConns' = r.nrConns
           /\ newConn' = [newConn EXCEPT ![c] = IF r.err = "nil" THEN "admitted"
                                                ELSE "rejected"]
           /\ reader' = [reader EXCEPT ![c] = IF r.err = "nil" THEN "reading"
                                              ELSE @]
           /\ nrLogin' = [nrLogin EXCEPT ![c] = IF r.err = "nil" THEN @ + 1
                                                ELSE @]
           /\ last' = [NoEvent EXCEPT !.kind = "join", !.conn = c,
                                      !.user = Username(c), !.err = r.err,
                                      !.pre = tree, !.preNr = nrConns]
    /\ nrNewConns' = nrNewConns + 1
    /\ UNCHANGED << config, nrWrites, teardown, nrClose, nrLogout, nrError,
                    nrFallback, mapLast, mapPrev >>

\* A NewConn call, while fewer than MaxNewConns have been made.
Join(c) ==
    /\ nrNewConns < MaxNewConns
    /\ NewConn(c)
    /\ UNCHANGED sideVars

\* process(), case leaveEvt: DelConn, Close, and when deleted the counter
\* and the logout hook.
ProcessLeave(c) ==
    LET d == DelConn(tree, c)
    IN  /\ tree' = d.tree
        /\ nrClose' = [nrClose EXCEPT ![c] = @ + 1]
        /\ nrConns' = IF d.deleted THEN nrConns - 1 ELSE nrConns
        /\ nrLogout' = IF d.deleted THEN [nrLogout EXCEPT ![c] = @ + 1]
                                    ELSE nrLogout
        /\ last' = [NoEvent EXCEPT !.kind = "leave", !.conn = c,
                                   !.user = Username(c), !.deleted = d.deleted,
                                   !.pre = tree, !.preNr = nrConns]

\* serveConn(conn): ReadMessage returns an error, the deferred function
\* sends the leave event and the loop receives and services it.
ReaderLeave(c) ==
    /\ reader[c] = "reading"
    /\ reader' = [reader EXCEPT ![c] = "exited"]
    /\ ProcessLeave(c)
    /\ UNCHANGED << config, newConn, nrNewConns, nrWrites, teardown, nrLogin,
                    nrError, nrFallback, mapLast, mapPrev >>

LeaveFromReader(c) ==
    /\ ReaderLeave(c)
    /\ UNCHANGED sideVars

\* The loop receives the leave event a write's teardown task posts.
TeardownLeave(w) ==
    /\ w \in DOMAIN teardown
    /\ teardown[w] # << >>
    /\ teardown' = [teardown EXCEPT ![w] = Tail(@)]
    /\ ProcessLeave(Head(teardown[w]))
    /\ UNCHANGED << config, newConn, reader, nrNewConns, nrWrites, nrLogin,
                    nrError, nrFallback, mapLast, mapPrev >>

LeaveFromTeardown(w) ==
    /\ TeardownLeave(w)
    /\ UNCHANGED sideVars

\* A variant of the send loop that records no Result for a connection whose
\* SendMessage failed.
RECURSIVE SendLoopDropFailed(_, _, _, _)
SendLoopDropFailed(conns, fails, i, acc) ==
    IF i > Len(conns) THEN acc
    ELSE LET sconn == conns[i]
         IN  IF i \in fails
             THEN SendLoopDropFailed(conns, fails, i + 1,
                    [acc EXCEPT !.errConns = Append(@, sconn)])
             ELSE SendLoopDropFailed(conns, fails, i + 1,
                    [acc EXCEPT
                       !.res = Append(@, [Err |-> "nil", ConnId |-> UniqId(sconn),
                                          Visible |-> Visible(sconn)]),
                       !.n = IF Visible(sconn) THEN @ + 1 ELSE @])

\* A variant of the send loop that counts every connection reached without
\* error, visible or not.
RECURSIVE SendLoopCountAll(_, _, _, _)
SendLoopCountAll(conns, fails, i, acc) ==
    IF i > Len(conns) THEN acc
    ELSE LET sconn == conns[i]
         IN  IF i \in fails
             THEN SendLoopCountAll(conns, fails, i + 1,
                    [acc EXCEPT
                       !.errConns = Append(@, sconn),
                       !.res = Append(@, [Err |-> "send", ConnId |-> UniqId(sconn),
                                          Visible |-> Visible(sconn)])])
             ELSE SendLoopCountAll(conns, fails, i + 1,
                    [acc EXCEPT
                       !.res = Append(@, [Err |-> "nil", ConnId |-> UniqId(sconn),
                                          Visible |-> Visible(sconn)]),
                       !.n = @ + 1])

\* process(), case wreq, the loop over conns from position i on: the Result
\* list res, the error-set errConns and the reached counter n.  fails is the
\* set of positions whose SendMessage returns an error.
RECURSIVE SendLoop(_, _, _, _)
SendLoop(conns, fails, i, acc) ==
    IF i > Len(conns) THEN acc
    ELSE LET sconn == conns[i]
         IN  IF i \in fails
             THEN SendLoop(conns, fails, i + 1,
                    [acc EXCEPT
                       !.errConns = Append(@, sconn),
                       !.res = Append(@, [Err |-> "send", ConnId |-> UniqId(sconn),
                                          Visible |-> Visible(sconn)])])
             ELSE SendLoop(conns, fails, i + 1,
                    [acc EXCEPT
                       !.res = Append(@, [Err |-> "nil", ConnId |-> UniqId(sconn),
                                          Visible |-> Visible(sconn)]),
                       !.n = IF Visible(sconn) THEN @ + 1 ELSE @])

\* process(), case wreq: what the loop computes from the registry's list of
\* the target user.
ProcessWrite(t, user, fails) ==
    SendLoop(GetConn(t, user).list, fails, 1,
             [res |-> << >>, errConns |-> << >>, n |-> 0])

\* process(), case wreq: "if n == 0 { ... go func() {...}() }", the number of
\* push-fallback tasks the write launches.
LaunchFallback(n) == IF n = 0 THEN 1 ELSE 0

\* SendMessage(username, ...): the write request is received by the loop and
\* serviced, the error hook is dispatched for each failed send, the
\* push-fallback task is launched when n = 0, the result list is received
\* from resChan, and the teardown task is started with the error-set.  Every
\* member of a list is a server.Conn put there by NewConn, so the loop skips
\* none (the nil and type checks of the source never hit).
SendMessage(user) ==
    /\ \E fails \in SUBSET (1..Len(GetConn(tree, user).list)) :
       LET w == ProcessWrite(tree, user, fails)
       IN  /\ nrError' = [c \in Conns |->
                            nrError[c] + Cardinality({i \in 1..Len(w.errConns) :
                                                        w.errConns[i] = c})]
           /\ nrFallback' = nrFallback + LaunchFallback(w.n)
           /\ teardown' = [x \in DOMAIN teardown \cup {nrWrites + 1} |->
                             IF x = nrWrites + 1 THEN w.errConns ELSE teardown[x]]
           /\ last' = [NoEvent EXCEPT !.kind = "write", !.user = user,
                                      !.pre = tree, !.preNr = nrConns,
                                      !.res = w.res,
                                      !.launched = LaunchFallback(w.n)]
    /\ nrWrites' = nrWrites + 1
    /\ UNCHANGED << config, tree, nrConns, newConn, reader, nrNewConns, nrClose,
                    nrLogout, nrLogin, mapLast, mapPrev >>

\* A SendMessage call, while fewer than MaxWrites have been made.
Write(user) ==
    /\ nrWrites < MaxWrites
    /\ SendMessage(user)
    /\ UNCHANGED sideVars

Next ==
    \/ \E c \in Offered : Join(c)
    \/ \E c \in Offered : LeaveFromReader(c)
    \/ \E w \in 1..MaxWrites : LeaveFromTeardown(w)
    \/ \E u \in Users : Write(u)

Spec == Init /\ [][Next]_vars

\* ------------------------------------------------------------------------
\* The registry on its own: any sequence of AddConn and DelConn calls, with
\* the caps of the configuration.
\* ------------------------------------------------------------------------

MapAddConn(c) ==
    /\ LET r == AddConn(tree, c, config.MaxNrConnsPerUser, config.MaxNrUsers)
       IN  /\ tree' = r.tree
           /\ mapLast' = [op |-> "add", conn |-> c, err |-> r.err,
                          deleted |-> FALSE, pre |-> tree]
    /\ mapPrev' = mapLast
    /\ UNCHANGED << config, loopVars, sideVars >>

MapDelConn(c) ==
    /\ LET d == DelConn(tree, c)
       IN  /\ tree' = d.tree
           /\ mapLast' = [op |-> "del", conn |-> c, err |-> "nil",
                          deleted |-> d.deleted, pre |-> tree]
    /\ mapPrev' = mapLast
    /\ UNCHANGED << config, loopVars, sideVars >>

NextMap ==
    \/ \E c \in Offered : MapAddConn(c)
    \/ \E c \in Offered : MapDelConn(c)

InitMap ==
    /\ config \in [MaxNrConns : {0},
                    MaxNrUsers : MapMaxNrUsersChoices,
                    MaxNrConnsPerUser : MapMaxNrConnsPerUserChoices]
    /\ call = NoCall
    /\ InitState

SpecMap == InitMap /\ [][NextMap]_vars

\* ------------------------------------------------------------------------
\* Push-info synthesis: getPushInfo.  A string that is tested for a prefix
\* is the sequence of its dot-terminated segments ("notif.uniqush.msgsize"
\* is << "notif.", "uniqush.", "msgsize" >>), any other string a sequence
\* of one element.  A map is a function; a nil map is [nil |-> TRUE].
\* ------------------------------------------------------------------------

\* strings.HasPrefix
HasPrefix(str, prefix) ==
    Len(str) >= Len(prefix) /\ SubSeq(str, 1, Len(prefix)) = prefix

\* m[k] = v
Put(m, k, v) == [x \in DOMAIN m \cup {k} |-> IF x = k THEN v ELSE m[x]]

\* proto.Message.Size(): the bytes of the body and of the header's keys and
\* values (here, their lengths as sequences).
RECURSIVE HeaderSize(_, _)
HeaderSize(header, keys) ==
    IF keys = {} THEN 0
    ELSE LET k == CHOOSE x \in keys : TRUE
         IN  Len(k) + Len(header[k]) + HeaderSize(header, keys \ {k})

Size(msg) == msg.Body + HeaderSize(msg.Header, DOMAIN msg.Header)

\* fmt.Sprintf("%v", n) of an int n >= 0: its decimal digits.
RECURSIVE Sprintf(_)
Sprintf(n) ==
    LET digit == << "0", "1", "2", "3", "4", "5", "6", "7", "8", "9" >>
    IN  IF n < 10 THEN << digit[n + 1] >>
        ELSE Append(Sprintf(n \div 10), digit[(n % 10) + 1])

\* getPushInfo(msg, extra, fwd): the returned map, and the message and the
\* caller's extra map as the call leaves them (both are changed in place; a
\* nil extra stays nil at the caller).
getPushInfo(msg, extra, fwd) ==
    LET e0 == IF extra.nil THEN << >> ELSE extra.map
        copied == IF fwd
                  THEN {k \in DOMAIN msg.Header :
                          /\ HasPrefix(k, << "notif." >>)
                          /\ ~HasPrefix(k, << "notif.", "uniqush." >>)}
                  ELSE {}
        e1 == [k \in DOMAIN e0 \cup copied |->
                 IF k \in copied THEN msg.Header[k] ELSE e0[k]]
        header == [k \in DOMAIN msg.Header \ copied |-> msg.Header[k]]
        e2 == IF fwd
              THEN Put(Put(e1, << "uniqush.", "sender" >>, msg.Sender),
                       << "uniqush.", "sender-service" >>, msg.SenderService)
              ELSE e1
        e3 == IF /\ << "title" >> \in DOMAIN header
                 /\ << "notif.", "msg" >> \notin DOMAIN e2
              THEN Put(e2, << "notif.", "msg" >>, header[<< "title" >>])
              ELSE e2
        after == [msg EXCEPT !.Header = header]
        info == Put(e3, << "notif.", "uniqush.", "msgsize" >>, Sprintf(Size(after)))
    IN  [info |-> info,
         msg |-> after,
         extra |-> IF extra.nil THEN extra ELSE [nil |-> FALSE, map |-> info]]

\* The header names the arguments are drawn from.
HeaderKeys ==
    { << "notif.", "msg" >>, << "notif.", "sound" >>, << "title" >>,
      << "notif.", "uniqush.", "msgsize" >>, << "notif.", "uniqush.", "x" >> }

\* The extra maps the arguments are drawn from: nil, or any map over these
\* three names.
ExtraChoices ==
    {[nil |-> TRUE]} \cup
    { [nil |-> FALSE, map |-> [k \in ek |-> << "e" >>]] :
      ek \in SUBSET { << "notif.", "msg" >>, << "uniqush.", "sender" >>,
                      << "notif.", "uniqush.", "x" >> } }

\* The calls of getPushInfo a push-fallback task makes: every header over a
\* subset of HeaderKeys, every extra of ExtraChoices, both values of fwd.
InfoCalls ==
    { [fn |-> "getPushInfo", at |-> 0, fwd |-> fwd,
       msg |-> [Header |-> [k \in hk |-> << "h" >>], Sender |-> << "bob" >>,
                SenderService |-> << "svc" >>, Body |-> 9],
       extra |-> extra,
       msg0 |-> << >>, extra0 |-> << >>, first |-> << >>, second |-> << >>] :
      hk \in SUBSET HeaderKeys, extra \in ExtraChoices, fwd \in BOOLEAN }

\* What a call of a function on its own leaves alone.
CallFrame ==
    UNCHANGED << config, tree, loopVars, mapLast, mapPrev, joinLog, errWrite,
                 pushVars, serve >>

\* shouldPush(): info := getPushInfo(msg, extra, fwd), handed to the hook.
GetPushInfoFirst ==
    /\ call.fn = "getPushInfo"
    /\ call.at = 0
    /\ LET r == getPushInfo(call.msg, call.extra, call.fwd)
       IN  call' = [call EXCEPT !.at = 1, !.msg0 = call.msg, !.extra0 = call.extra,
                                !.msg = r.msg, !.extra = r.extra, !.first = r.info]
    /\ CallFrame

\* pushNotif(): info := getPushInfo(msg, extra, fwd), handed to Push, with
\* the message and the extra the first call left.
GetPushInfoSecond ==
    /\ call.fn = "getPushInfo"
    /\ call.at = 1
    /\ LET r == getPushInfo(call.msg, call.extra, call.fwd)
       IN  call' = [call EXCEPT !.at = 2, !.msg = r.msg, !.extra = r.extra,
                                !.second = r.info]
    /\ CallFrame

\* A variant of ReceiveForward that replaces the TTL only when it is under
\* a second.
ReceiveForwardNoUpper(handler, fwdreq, answer) ==
    LET shouldFwd == IF handler.nil THEN FALSE ELSE answer
        ttl == IF ~handler.nil /\ fwdreq.TTL < 1 * Second
               THEN handler.maxTTL ELSE fwdreq.TTL
    IN  IF ~shouldFwd
        THEN [sent |-> FALSE, ttl |-> ttl]
        ELSE [sent |-> TRUE, ttl |-> ttl, receiver |-> fwdreq.Receiver,
              extra |-> getPushInfo(fwdreq.Message, [nil |-> TRUE], TRUE).info]

\* ReceiveForward(fwdreq): whether SendMessage is called, and with which
\* receiver, extra and TTL.  handler is config.ForwardRequestHandler, answer
\* what its ShouldForward returns.
ReceiveForward(handler, fwdreq, answer) ==
    LET shouldFwd == IF handler.nil THEN FALSE ELSE answer
        ttl == IF /\ ~handler.nil
                  /\ (fwdreq.TTL < 1 * Second \/ fwdreq.TTL > handler.maxTTL)
               THEN handler.maxTTL ELSE fwdreq.TTL
    IN  IF ~shouldFwd
        THEN [sent |-> FALSE, ttl |-> ttl]
        ELSE [sent |-> TRUE, ttl |-> ttl, receiver |-> fwdreq.Receiver,
              extra |-> getPushInfo(fwdreq.Message, [nil |-> TRUE], TRUE).info]

\* The calls of ReceiveForward: every TTL and MaxTTL up to MaxDuration, a
\* negative TTL, with and without a forward handler, both answers.
FwdCalls ==
    { [fn |-> "ReceiveForward", at |-> 0, answer |-> answer,
       handler |-> handler,
       fwdreq |-> [TTL |-> ttl, Receiver |-> "u1",
                   Message |-> [Header |-> [k \in {<< "notif.", "msg" >>} |-> << "h" >>],
                                Sender |-> << "bob" >>,
                                SenderService |-> << "svc" >>, Body |-> 9]],
       res |-> << >>] :
      ttl \in (-1)..MaxDuration, answer \in BOOLEAN,
      handler \in {[nil |-> TRUE]} \cup
                   {[nil |-> FALSE, maxTTL |-> m] : m \in 0..MaxDuration} }

\* ReceiveForward is called; when the request is to be forwarded, the
\* SendMessage it makes is serviced by the loop.
ReceiveForwardCall ==
    /\ call.fn = "ReceiveForward"
    /\ call.at = 0
    /\ LET r == ReceiveForward(call.handler, call.fwdreq, call.answer)
       IN  /\ call' = [call EXCEPT !.at = 1, !.res = r]
           /\ IF r.sent
              THEN SendMessage(r.receiver)
              ELSE UNCHANGED << config, tree, loopVars, mapLast, mapPrev >>
    /\ UNCHANGED << joinLog, errWrite, pushVars, serve >>

\* setWebHook: the Default the parser sets from the hook's "default" value.
setWebHook(url, defaultValue) ==
    [URL |-> url, Default |-> IF defaultValue = "allow" THEN 200 ELSE 404]

\* webHook.post(data): the status the hook goes by.  marshalled is whether
\* json.Marshal succeeds, reply what c.Post returns.
post(hook, marshalled, reply) ==
    IF hook.URL = "" \/ hook.URL = "none" THEN hook.Default
    ELSE IF ~marshalled THEN hook.Default
    ELSE IF reply.err THEN hook.Default
    ELSE reply.StatusCode

\* The four deciding hooks.
Decide(kind, hook, marshalled, reply) ==
    CASE kind = "ShouldForward" -> post(hook, marshalled, reply) = 200
      [] kind = "Authenticate" -> post(hook, marshalled, reply) = 200
      [] kind = "ShouldSubscribe" -> post(hook, marshalled, reply) = 200
      [] kind = "ShouldPush" -> post(hook, marshalled, reply) = 200

\* The calls of the deciding hooks: each hook, with a blank, a disabled and
\* a set URL, each "default" value, a failing and a working json.Marshal, a
\* transport failure and the reply statuses 200, 404 and 500.
HookCalls ==
    { [fn |-> "webHook", at |-> 0, kind |-> kind,
       hook |-> setWebHook(url, defaultValue), marshalled |-> marshalled,
       reply |-> reply, res |-> FALSE] :
      kind \in {"ShouldForward", "Authenticate", "ShouldSubscribe", "ShouldPush"},
      url \in {"", "none", "http://hook"},
      defaultValue \in {"allow", "deny", ""},
      marshalled \in BOOLEAN,
      reply \in {[err |-> TRUE]} \cup
                 {[err |-> FALSE, StatusCode |-> c] : c \in {200, 404, 500}} }

\* A deciding hook is called.
WebHookCall ==
    /\ call.fn = "webHook"
    /\ call.at = 0
    /\ call' = [call EXCEPT !.at = 1,
                            !.res = Decide(call.kind, call.hook, call.marshalled,
                                           call.reply)]
    /\ CallFrame

\* parseWebHook(node): the webhookInfo of a map with a url; a field the map
\* leaves out keeps the zero value of new(webhookInfo).
parseWebHook(node) ==
    [url |-> node.url,
     timeout |-> IF "timeout" \in DOMAIN node THEN node.timeout ELSE 0,
     defaultValue |-> IF "default" \in DOMAIN node THEN node.default ELSE ""]

\* setWebHook(hd, node, timeout): the duration handed to hd.SetTimeout.
SetTimeout(node, timeout) ==
    LET hook == parseWebHook(node)
    IN  IF hook.timeout < 0 * Second THEN timeout ELSE hook.timeout

\* parseService(): the timeout handed to the parsers of the service's hooks.
parseService(fields) ==
    IF "timeout" \in DOMAIN fields THEN fields.timeout ELSE 3 * Second

\* The webhooks parsed for a service: the hook with no timeout and with each
\* timeout from -1 up to MaxDuration, the service with no timeout and with
\* each timeout from 1 up to MaxDuration.
TimeoutCalls ==
    { [fn |-> "setWebHook", at |-> 0, node |-> node, fields |-> fields, res |-> 0] :
      node \in {[url |-> "http://hook"]} \cup
               {[url |-> "http://hook", timeout |-> d] : d \in (-1)..MaxDuration},
      fields \in {[login |-> "hook"]} \cup
                 {[login |-> "hook", timeout |-> d] : d \in 1..MaxDuration} }

\* The hook of a service is parsed.
SetWebHookCall ==
    /\ call.fn = "setWebHook"
    /\ call.at = 0
    /\ call' = [call EXCEPT !.at = 1,
                            !.res = SetTimeout(call.node, parseService(call.fields))]
    /\ CallFrame

NextCall ==
    \/ GetPushInfoFirst
    \/ GetPushInfoSecond
    \/ ReceiveForwardCall
    \/ WebHookCall
    \/ SetWebHookCall

InitCall ==
    /\ config = [MaxNrConns |-> 0, MaxNrUsers |-> 0, MaxNrConnsPerUser |-> 0]
    /\ call \in InfoCalls \cup FwdCalls \cup HookCalls \cup TimeoutCalls
    /\ InitState

SpecCall == InitCall /\ [][NextCall]_vars

\* ------------------------------------------------------------------------
\* The service center after a failed send: the events of Spec, with two
\* writes, no cap, and a record of the first write that had one failed send.
\* ------------------------------------------------------------------------

\* Whether connection c is another connection of the failed write's user.
OtherOfUser(c) ==
    errWrite.n > 0 /\ c # errWrite.conn /\ Username(c) = errWrite.user

\* What the events after a failed send leave alone.
ErrFrame == UNCHANGED << joinLog, call, pushVars, serve >>

ErrJoin(c) ==
    /\ nrNewConns < MaxNewConns
    /\ NewConn(c)
    /\ ErrFrame
    /\ errWrite' = IF OtherOfUser(c) /\ last'.err = "nil"
                   THEN [errWrite EXCEPT !.others = TRUE]
                   ELSE errWrite

ErrLeaveFromReader(c) ==
    /\ ReaderLeave(c)
    /\ ErrFrame
    /\ errWrite' = IF OtherOfUser(c)
                   THEN [errWrite EXCEPT !.others = TRUE]
                   ELSE errWrite

ErrLeaveFromTeardown(w) ==
    /\ TeardownLeave(w)
    /\ ErrFrame
    /\ LET c == Head(teardown[w])
       IN  errWrite' =
             IF OtherOfUser(c)
             THEN [errWrite EXCEPT !.others = TRUE]
             ELSE IF errWrite.n > 0 /\ c = errWrite.conn /\ ~errWrite.torn
             THEN [errWrite EXCEPT !.torn = TRUE,
                                   !.gone = c \notin ConnsOf(tree', errWrite.user)]
             ELSE errWrite

ErrWrite(user) ==
    /\ nrWrites < MaxErrWrites
    /\ SendMessage(user)
    /\ ErrFrame
    /\ LET errConns == teardown'[nrWrites + 1]
           res == last'.res
       IN  errWrite' =
             IF errWrite.n = 0 /\ Len(errConns) = 1
             THEN [NoErrWrite EXCEPT
                     !.n = Len(res),
                     !.conn = errConns[1],
                     !.user = user,
                     !.resErr = \E i \in 1..Len(res) :
                                   /\ res[i].ConnId = UniqId(errConns[1])
                                   /\ res[i].Err # "nil",
                     !.hooks = nrError'[errConns[1]] - nrError[errConns[1]]]
             ELSE IF /\ errWrite.n > 0
                     /\ user = errWrite.user
                     /\ errWrite.torn
                     /\ ~errWrite.others
                     /\ errWrite.next = -1
             THEN [errWrite EXCEPT !.next = Len(res)]
             ELSE errWrite

NextErr ==
    \/ \E c \in Offered : ErrJoin(c)
    \/ \E c \in Offered : ErrLeaveFromReader(c)
    \/ \E w \in 1..MaxErrWrites : ErrLeaveFromTeardown(w)
    \/ \E u \in Users : ErrWrite(u)

InitErr ==
    /\ config = [MaxNrConns |-> 0, MaxNrUsers |-> 0, MaxNrConnsPerUser |-> 0]
    /\ call = NoCall
    /\ InitState

SpecErr == InitErr /\ [][NextErr]_vars

\* ------------------------------------------------------------------------
\* The service center with the caps MaxNrConnsPerUser = 2, MaxNrUsers = 2
\* and MaxNrConns = 3: every connection may join once, in any order, and
\* leave; the NewConn calls made before the first leave are logged with
\* their replies.
\* ------------------------------------------------------------------------

\* The value of the log once a connection has left.
LogClosed == << [conn |-> 0, err |-> "closed"] >>

CapsFrame == UNCHANGED << errWrite, call, pushVars, serve >>

CapsJoin(c) ==
    /\ NewConn(c)
    /\ joinLog' = IF joinLog = LogClosed
                  THEN joinLog
                  ELSE Append(joinLog, [conn |-> c, err |-> last'.err])
    /\ CapsFrame

CapsLeaveFromReader(c) ==
    /\ ReaderLeave(c)
    /\ joinLog' = LogClosed
    /\ CapsFrame

NextCaps ==
    \/ \E c \in CapsOffered : CapsJoin(c)
    \/ \E c \in CapsOffered : CapsLeaveFromReader(c)

InitCaps ==
    /\ config = [MaxNrConns |-> 3, MaxNrUsers |-> 2, MaxNrConnsPerUser |-> 2]
    /\ call = NoCall
    /\ InitState

SpecCaps == InitCaps /\ [][NextCaps]_vars

\* ------------------------------------------------------------------------
\* The push path: the subscribe case of process() and the push-fallback
\* task a write launches, with pushServiceLock between them.  No connection
\* joins, so every write finds no recipient and launches a task.
\* ------------------------------------------------------------------------

\* The values PushService.NrDeliveryPoints returns.
NrDeliveryPointsChoices == (-1)..MaxDeliveryPoints

\* The task "go func() {...}()" of the write numbered w, before its first
\* statement; res is the result list the write replied to its caller.
NewTask(w, res) ==
    [w |-> w, pc |-> "shouldPush", should |-> FALSE, n |-> 0, i |-> 0,
     msgIds |-> << >>, cacheCalls |-> 0, pushCalls |-> 0, pushed |-> << >>,
     raised |-> << >>, reported |-> << >>, res |-> res]

\* shouldPush(): the hook's answer, false without a push handler.
shouldPush(cfg, answer) == IF cfg.PushHandler THEN answer ELSE FALSE

\* nrDeliveryPoints(): the backend's answer, 0 without a push service.
nrDeliveryPoints(cfg, answer) == IF cfg.PushService THEN answer ELSE 0

\* cacheMessage(): the id and the error of MsgCache.CacheMessage, both zero
\* without a cache.  The id the cache returns to call number k of the task
\* of write w is << w, k >>.
cacheMessage(cfg, w, k, ok) ==
    IF cfg.MsgCache
    THEN IF ok THEN [called |-> 1, id |-> << w, k >>, err |-> "nil"]
               ELSE [called |-> 1, id |-> << >>, err |-> "cache"]
    ELSE [called |-> 0, id |-> << >>, err |-> "nil"]

\* reportError(): the error hooks dispatched for err.
reportError(cfg, err) == IF cfg.ErrorHandler THEN << err >> ELSE << >>

\* A variant of the cache loop's body that fills msgIds from its end.
CacheIterationFromEnd(cfg, t, ok) ==
    LET r == cacheMessage(cfg, t.w, t.cacheCalls + 1, ok)
        u == [t EXCEPT !.msgIds[t.n - t.i] = r.id,
                       !.cacheCalls = @ + r.called]
    IN  IF r.err # "nil"
        THEN [u EXCEPT !.raised = Append(@, r.err), !.pc = "done"]
        ELSE [u EXCEPT !.i = @ + 1,
                       !.pc = IF t.i + 1 < t.n THEN "cacheMessage" ELSE "pushNotif"]

\* One pass of "for i := 0; i < n; i++ { msgIds[i], e = cacheMessage(...);
\* if e != nil { return } }": the task after it.  The error is returned to
\* nobody and handed to no hook.
CacheIteration(cfg, t, ok) ==
    LET r == cacheMessage(cfg, t.w, t.cacheCalls + 1, ok)
        u == [t EXCEPT !.msgIds[t.i + 1] = r.id,
                       !.cacheCalls = @ + r.called]
    IN  IF r.err # "nil"
        THEN [u EXCEPT !.raised = Append(@, r.err), !.pc = "done"]
        ELSE [u EXCEPT !.i = @ + 1,
                       !.pc = IF t.i + 1 < t.n THEN "cacheMessage" ELSE "pushNotif"]

\* pushNotif(): PushService.Push with msgIds, and reportError on its error.
pushNotif(cfg, t, ok) ==
    IF cfg.PushService
    THEN IF ok
         THEN [t EXCEPT !.pushCalls = @ + 1, !.pushed = t.msgIds, !.pc = "done"]
         ELSE [t EXCEPT !.pushCalls = @ + 1, !.pushed = t.msgIds, !.pc = "done",
                        !.raised = Append(@, "push"),
                        !.reported = @ \o reportError(cfg, "push")]
    ELSE [t EXCEPT !.pc = "done"]

\* A caller of SendMessage reaches "self.writeReqChan <- req" and blocks.
SendMessageCall ==
    /\ nrWrites + writeReqs < MaxPushWrites
    /\ writeReqs' = writeReqs + 1
    /\ UNCHANGED << config, tree, loopVars, mapLast, mapPrev, joinLog, errWrite,
                    call, loop, subReqs, nrSubReqs, rlock, tasks, serve >>

\* A connection sends a subscribe request on subReqChan and blocks.
SubscribeCall ==
    /\ nrSubReqs < MaxSubReqs
    /\ nrSubReqs' = nrSubReqs + 1
    /\ subReqs' = subReqs + 1
    /\ UNCHANGED << config, tree, loopVars, mapLast, mapPrev, joinLog, errWrite,
                    call, loop, writeReqs, rlock, tasks, serve >>

\* process(), case wreq, of a blocked caller: the write is serviced and its
\* task is launched.
LoopWrite(user) ==
    /\ loop = "select"
    /\ writeReqs > 0
    /\ SendMessage(user)
    /\ writeReqs' = writeReqs - 1
    /\ tasks' = IF last'.launched = 1
                THEN Append(tasks, NewTask(nrWrites + 1, last'.res))
                ELSE tasks
    /\ UNCHANGED << joinLog, errWrite, call, loop, subReqs, nrSubReqs, rlock,
                    serve >>

\* process(), case subreq: the request is received and the loop calls
\* pushServiceLock.Lock().
LoopSubscribe ==
    /\ loop = "select"
    /\ subReqs > 0
    /\ subReqs' = subReqs - 1
    /\ loop' = "Lock"
    /\ UNCHANGED << config, tree, loopVars, mapLast, mapPrev, joinLog, errWrite,
                    call, writeReqs, nrSubReqs, rlock, tasks, serve >>

\* Lock() returns once no task holds the lock for reading; the loop calls
\* self.subscribe(subreq), that is PushService.Subscribe or Unsubscribe.
LoopLocked ==
    /\ loop = "Lock"
    /\ rlock = {}
    /\ loop' = "subscribe"
    /\ UNCHANGED << config, tree, loopVars, mapLast, mapPrev, joinLog, errWrite,
                    call, subReqs, writeReqs, nrSubReqs, rlock, tasks, serve >>

\* The push service's call returns, the loop calls Unlock() and goes back
\* to its select.
LoopSubscribed ==
    /\ loop = "subscribe"
    /\ loop' = "select"
    /\ UNCHANGED << config, tree, loopVars, mapLast, mapPrev, joinLog, errWrite,
                    call, subReqs, writeReqs, nrSubReqs, rlock, tasks, serve >>

\* A variant of the task that calls RUnlock() as its last statement, after
\* pushNotif, in place of deferring it.
RUnlockAtEnd(rl, t, from, returned) ==
    IF returned /\ from = "pushNotif" THEN rl \ {t} ELSE rl

\* "defer self.pushServiceLock.RUnlock()": the holders of the read lock
\* after task t has run the statement from; the lock is released when the
\* task has returned there.
RUnlock(rl, t, from, returned) == IF returned THEN rl \ {t} ELSE rl

\* What a step of task number t leaves alone.
TaskFrame ==
    UNCHANGED << config, tree, loopVars, mapLast, mapPrev, joinLog, errWrite,
                 call, loop, subReqs, writeReqs, nrSubReqs, serve >>

\* The task calls shouldPush and returns when the answer is false.
TaskShouldPush(t) ==
    /\ t \in DOMAIN tasks
    /\ tasks[t].pc = "shouldPush"
    /\ \E answer \in BOOLEAN :
          LET should == shouldPush(config, answer)
          IN  tasks' = [tasks EXCEPT ![t].should = should,
                                     ![t].pc = IF should THEN "RLock" ELSE "done"]
    /\ UNCHANGED rlock
    /\ TaskFrame

\* pushServiceLock.RLock() returns: the loop neither holds the lock nor
\* waits in Lock() (a waiting Lock() holds back new readers).
TaskRLock(t) ==
    /\ t \in DOMAIN tasks
    /\ tasks[t].pc = "RLock"
    /\ loop = "select"
    /\ rlock' = rlock \cup {t}
    /\ tasks' = [tasks EXCEPT ![t].pc = "nrDeliveryPoints"]
    /\ TaskFrame

\* n := self.nrDeliveryPoints(...); if n <= 0 { return }; msgIds = make(
\* []string, n).  A return runs the deferred RUnlock().
TaskNrDeliveryPoints(t) ==
    /\ t \in DOMAIN tasks
    /\ tasks[t].pc = "nrDeliveryPoints"
    /\ \E answer \in NrDeliveryPointsChoices :
          LET n == nrDeliveryPoints(config, answer)
          IN  /\ tasks' = [tasks EXCEPT
                             ![t].n = n,
                             ![t].msgIds = [k \in 1..n |-> << >>],
                             ![t].pc = IF n <= 0 THEN "done" ELSE "cacheMessage"]
              /\ rlock' = RUnlock(rlock, t, "nrDeliveryPoints", n <= 0)
    /\ TaskFrame

\* One pass of the cache loop.
TaskCacheMessage(t) ==
    /\ t \in DOMAIN tasks
    /\ tasks[t].pc = "cacheMessage"
    /\ \E ok \in BOOLEAN :
          LET u == CacheIteration(config, tasks[t], ok)
          IN  /\ tasks' = [tasks EXCEPT ![t] = u]
              /\ rlock' = RUnlock(rlock, t, "cacheMessage", u.pc = "done")
    /\ TaskFrame

\* self.pushNotif(...), and the return of the task.
TaskPushNotif(t) ==
    /\ t \in DOMAIN tasks
    /\ tasks[t].pc = "pushNotif"
    /\ \E ok \in BOOLEAN :
          tasks' = [tasks EXCEPT ![t] = pushNotif(config, tasks[t], ok)]
    /\ rlock' = RUnlock(rlock, t, "pushNotif", TRUE)
    /\ TaskFrame

NextPush ==
    \/ SendMessageCall
    \/ SubscribeCall
    \/ \E u \in Users : LoopWrite(u)
    \/ LoopSubscribe
    \/ LoopLocked
    \/ LoopSubscribed
    \/ \E t \in 1..MaxPushWrites : TaskShouldPush(t)
    \/ \E t \in 1..MaxPushWrites : TaskRLock(t)
    \/ \E t \in 1..MaxPushWrites : TaskNrDeliveryPoints(t)
    \/ \E t \in 1..MaxPushWrites : TaskCacheMessage(t)
    \/ \E t \in 1..MaxPushWrites : TaskPushNotif(t)

\* newServiceCenter with every hook, the cache and the push service set,
\* and no cap.
InitPush ==
    /\ config = [MaxNrConns |-> 0, MaxNrUsers |-> 0, MaxNrConnsPerUser |-> 0,
                 PushHandler |-> TRUE, PushService |-> TRUE, MsgCache |-> TRUE,
                 ErrorHandler |-> TRUE]
    /\ call = NoCall
    /\ InitState

SpecPush == InitPush /\ [][NextPush]_vars

\* The user the writes go to where the scheduling is fair.  No connection
\* joins on the push path, so every user is one without a connection.
PushUsers == {"u1"}

\* The steps of NextPush, the writes going to PushUsers.
NextPushFair ==
    \/ SendMessageCall
    \/ SubscribeCall
    \/ \E u \in PushUsers : LoopWrite(u)
    \/ LoopSubscribe
    \/ LoopLocked
    \/ LoopSubscribed
    \/ \E t \in 1..MaxPushWrites : TaskShouldPush(t)
    \/ \E t \in 1..MaxPushWrites : TaskRLock(t)
    \/ \E t \in 1..MaxPushWrites : TaskNrDeliveryPoints(t)
    \/ \E t \in 1..MaxPushWrites : TaskCacheMessage(t)
    \/ \E t \in 1..MaxPushWrites : TaskPushNotif(t)

\* Scheduling of the push path: process() takes a step whenever it can keep
\* taking one, and the calls a task makes while it holds the read lock
\* (NrDeliveryPoints, CacheMessage, Push) return.  No assumption is made on
\* the callers, on the push hook, nor on tasks that wait for the lock.
FairPush ==
    /\ WF_vars(\/ \E u \in PushUsers : LoopWrite(u)
               \/ LoopSubscribe
               \/ LoopLocked
               \/ LoopSubscribed)
    /\ WF_vars(\E t \in 1..MaxPushWrites :
                 \/ TaskNrDeliveryPoints(t)
                 \/ TaskCacheMessage(t)
                 \/ TaskPushNotif(t))

SpecPushFair == InitPush /\ [][NextPushFair]_vars /\ FairPush

\* ------------------------------------------------------------------------
\* The reader of a connection, statement by statement: serveConn reads
\* until ReadMessage returns an error, then its deferred function sends the
\* leave event.  reader[c] is "reading" in the loop, "leaving" when blocked
\* on connLeave, "exited" after.
\* ------------------------------------------------------------------------

\* reportMessage(): the message hooks dispatched for one message.
reportMessage(cfg) == IF cfg.MessageHandler THEN 1 ELSE 0

\* A variant of the read loop that hands what ReadMessage returned to the
\* message hook before it looks at the error.
serveConnHookFirst(cfg, s, err) ==
    IF err # "nil"
    THEN [s EXCEPT !.err = err, !.hooks = @ + reportMessage(cfg)]
    ELSE [s EXCEPT !.reads = @ + 1, !.hooks = @ + reportMessage(cfg)]

\* One pass of "for { msg, err = conn.ReadMessage(); if err != nil { return
\* }; self.reportMessage(...) }": what serveConn has done after it.
serveConn(cfg, s, err) ==
    IF err # "nil"
    THEN [s EXCEPT !.err = err]
    ELSE [s EXCEPT !.reads = @ + 1, !.hooks = @ + reportMessage(cfg)]

ReaderFrame == UNCHANGED << joinLog, errWrite, call, pushVars >>

ReaderJoin(c) ==
    /\ nrNewConns < MaxNewConns
    /\ NewConn(c)
    /\ UNCHANGED serve
    /\ ReaderFrame

\* conn.ReadMessage() returns, with a message or with an error.
ReadMessage(c) ==
    /\ reader[c] = "reading"
    /\ \E err \in {"nil", "read"} :
          /\ err = "nil" => SumReads(Conns) < MaxReads
          /\ serve' = [serve EXCEPT ![c] = serveConn(config, @, err)]
          /\ reader' = [reader EXCEPT ![c] = IF err # "nil" THEN "leaving" ELSE @]
    /\ UNCHANGED << config, tree, nrConns, newConn, nrNewConns, nrWrites,
                    teardown, nrClose, nrLogout, nrLogin, nrError, nrFallback,
                    last, mapLast, mapPrev >>
    /\ ReaderFrame

\* The deferred function's send on connLeave is received by the loop, which
\* services the leave event.
ReaderPostLeave(c) ==
    /\ loop = "select"
    /\ reader[c] = "leaving"
    /\ reader' = [reader EXCEPT ![c] = "exited"]
    /\ serve' = [serve EXCEPT ![c].leaves = Append(@, serve[c].err)]
    /\ ProcessLeave(c)
    /\ UNCHANGED << config, newConn, nrNewConns, nrWrites, teardown, nrLogin,
                    nrError, nrFallback, mapLast, mapPrev >>
    /\ ReaderFrame

NextReader ==
    \/ \E c \in Offered : ReaderJoin(c)
    \/ \E c \in Offered : ReadMessage(c)
    \/ \E c \in Offered : ReaderPostLeave(c)

InitReader ==
    /\ config = [MaxNrConns |-> 0, MaxNrUsers |-> 0, MaxNrConnsPerUser |-> 0,
                 MessageHandler |-> TRUE]
    /\ call = NoCall
    /\ InitState

SpecReader == InitReader /\ [][NextReader]_vars

\* ------------------------------------------------------------------------
\* The channels, rendezvous by rendezvous.  connIn, connLeave, writeReqChan
\* and the reply channels are unbuffered: a send completes together with
\* its receive.  loop is "select" when process() waits in its select,
\* "errChan" when it is sending the reply of the join in last, "resChan"
\* when it is sending the results of the write in last.  newConn[c] is
\* "sending" when the caller is blocked on connIn, "waiting" when it is
\* receiving from its reply channel, "serving" when it has a nil reply,
\* "login" when it has started the reader.  MaxNrUsers is 1, so the joins
\* of a second user are rejected while the first has a connection.
\* ------------------------------------------------------------------------

StepFrame ==
    UNCHANGED << joinLog, errWrite, call, subReqs, nrSubReqs, rlock, tasks,
                 serve, mapLast, mapPrev, config >>

\* NewConn is called: the username is tested and the caller reaches
\* "self.connIn <- evt".
NewConnCall(c) ==
    /\ nrNewConns < MaxNewConns
    /\ newConn[c] = "idle"
    /\ newConn' = [newConn EXCEPT ![c] = IF InvalidUsername(Username(c))
                                         THEN "invalid" ELSE "sending"]
    /\ nrNewConns' = nrNewConns + 1
    /\ UNCHANGED << tree, nrConns, reader, nrWrites, teardown, nrClose,
                    nrLogout, nrLogin, nrError, nrFallback, last, loop,
                    writeReqs >>
    /\ StepFrame

\* process(), case connInEvt: the event of a blocked caller is received and
\* serviced, and the loop reaches "connInEvt.errChan <- ...".
ProcessConnIn(c) ==
    /\ loop = "select"
    /\ newConn[c] = "sending"
    /\ LET r == ProcessJoin(tree, nrConns, c, config.MaxNrConns,
                            config.MaxNrConnsPerUser, config.MaxNrUsers)
       IN  /\ tree' = r.tree
           /\ nrConns' = r.nrConns
           /\ last' = [NoEvent EXCEPT !.kind = "join", !.conn = c,
                                      !.user = Username(c), !.err = r.err,
                                      !.pre = tree, !.preNr = nrConns]
    /\ newConn' = [newConn EXCEPT ![c] = "waiting"]
    /\ loop' = "errChan"
    /\ UNCHANGED << reader, nrNewConns, nrWrites, teardown, nrClose, nrLogout,
                    nrLogin, nrError, nrFallback, writeReqs >>
    /\ StepFrame

\* The reply passes from the loop to the caller: "err := <-ch".
ErrChanReply(c) ==
    /\ loop = "errChan"
    /\ last.conn = c
    /\ newConn[c] = "waiting"
    /\ newConn' = [newConn EXCEPT ![c] = IF last.err = "nil" THEN "serving"
                                         ELSE "rejected"]
    /\ loop' = "select"
    /\ UNCHANGED << tree, nrConns, reader, nrNewConns, nrWrites, teardown,
                    nrClose, nrLogout, nrLogin, nrError, nrFallback, last,
                    writeReqs >>
    /\ StepFrame

\* go self.serveConn(conn)
GoServeConn(c) ==
    /\ newConn[c] = "serving"
    /\ newConn' = [newConn EXCEPT ![c] = "login"]
    /\ reader' = [reader EXCEPT ![c] = "reading"]
    /\ UNCHANGED << tree, nrConns, nrNewConns, nrWrites, teardown, nrClose,
                    nrLogout, nrLogin, nrError, nrFallback, last, loop,
                    writeReqs >>
    /\ StepFrame

\* self.reportLogin(...), and the return of NewConn.
ReportLogin(c) ==
    /\ newConn[c] = "login"
    /\ newConn' = [newConn EXCEPT ![c] = "admitted"]
    /\ nrLogin' = [nrLogin EXCEPT ![c] = @ + 1]
    /\ UNCHANGED << tree, nrConns, reader, nrNewConns, nrWrites, teardown,
                    nrClose, nrLogout, nrError, nrFallback, last, loop,
                    writeReqs >>
    /\ StepFrame

\* process(), case leaveEvt, of a reader blocked on connLeave.
ProcessConnLeave(c) ==
    /\ loop = "select"
    /\ ReaderPostLeave(c)

\* A variant in which the loop posts the error-set to connLeave itself.
AfterResChanInline(errConns) ==
    IF errConns = << >> THEN "select" ELSE "connLeave"

\* Where the loop goes once the results are received: the error-set is left
\* to a task of its own ("go func() {...}()"), the loop is back at its
\* select.
AfterResChan(errConns) == "select"

\* process(), case wreq, of a blocked caller: the write is serviced and the
\* loop reaches "wreq.resChan <- res".
ProcessWriteReq(user) ==
    /\ loop = "select"
    /\ writeReqs > 0
    /\ SendMessage(user)
    /\ writeReqs' = writeReqs - 1
    /\ loop' = "resChan"
    /\ StepFrame

\* The results pass from the loop to the caller of SendMessage, and the
\* teardown task is started.
ResChanReply ==
    /\ loop = "resChan"
    /\ loop' = AfterResChan(teardown[nrWrites])
    /\ UNCHANGED << tree, loopVars, writeReqs >>
    /\ StepFrame

\* process(), case leaveEvt, of a teardown task blocked on connLeave.
ProcessTeardownLeave(w) ==
    /\ loop = "select"
    /\ TeardownLeave(w)
    /\ UNCHANGED << loop, writeReqs >>
    /\ StepFrame

\* A caller of SendMessage reaches "self.writeReqChan <- req" and blocks.
WriteReqChanSend ==
    /\ nrWrites + writeReqs < MaxWrites
    /\ writeReqs' = writeReqs + 1
    /\ UNCHANGED << tree, loopVars, loop >>
    /\ StepFrame

\* conn.ReadMessage() returns an error and serveConn returns: its deferred
\* function reaches "self.connLeave <- ...".  (The reads that succeed are
\* those of SpecReader; they touch neither a channel nor the loop.)
ServeConnReturn(c) ==
    /\ reader[c] = "reading"
    /\ serve' = [serve EXCEPT ![c] = serveConn(config, @, "read")]
    /\ reader' = [reader EXCEPT ![c] = "leaving"]
    /\ UNCHANGED << tree, nrConns, newConn, nrNewConns, nrWrites, teardown,
                    nrClose, nrLogout, nrLogin, nrError, nrFallback, last,
                    joinLog, errWrite, call, pushVars, mapLast, mapPrev,
                    config >>

\* The connections offered: two of one user, the second invisible, and one
\* of another user.
StepsOffered == {1, 2}

NextSteps ==
    \/ \E c \in StepsOffered : NewConnCall(c)
    \/ \E c \in StepsOffered : ProcessConnIn(c)
    \/ \E c \in StepsOffered : ErrChanReply(c)
    \/ \E c \in StepsOffered : GoServeConn(c)
    \/ \E c \in StepsOffered : ReportLogin(c)
    \/ \E c \in StepsOffered : ServeConnReturn(c)
    \/ \E c \in StepsOffered : ProcessConnLeave(c)
    \/ WriteReqChanSend
    \/ \E u \in Users : ProcessWriteReq(u)
    \/ ResChanReply
    \/ \E w \in 1..MaxWrites : ProcessTeardownLeave(w)

InitSteps ==
    /\ config \in {[MaxNrConns |-> 0, MaxNrUsers |-> 0, MaxNrConnsPerUser |-> n,
                  MessageHandler |-> TRUE] : n \in {0, 1}}
    /\ call = NoCall
    /\ InitState

SpecSteps == InitSteps /\ [][NextSteps]_vars

\* The steps of process(): a receive of its select, or the send of a reply.
LoopStep ==
    \/ \E c \in StepsOffered : ProcessConnIn(c)
    \/ \E c \in StepsOffered : ErrChanReply(c)
    \/ \E c \in StepsOffered : ProcessConnLeave(c)
    \/ \E u \in Users : ProcessWriteReq(u)
    \/ ResChanReply
    \/ \E w \in 1..MaxWrites : ProcessTeardownLeave(w)

\* Scheduling: process() takes a step whenever it can keep taking one (a
\* sender is blocked on one of its channels, or the caller it replies to is
\* receiving).  No assumption is made on when NewConn or SendMessage is
\* called, nor on when ReadMessage returns.
FairSteps == WF_vars(LoopStep)

SpecStepsFair == SpecSteps /\ FairSteps

\* ------------------------------------------------------------------------
\* Admission: the joins and reader leaves of Spec, with every connection
\* offered, those with an invalid username included, and each cap drawn from
\* a negative value, 0 and a positive value.
\* ------------------------------------------------------------------------

NextAdmit ==
    \/ \E c \in Conns : Join(c)
    \/ \E c \in Conns : LeaveFromReader(c)

InitAdmit ==
    /\ config \in [MaxNrConns : {-1, 0, 2},
                    MaxNrUsers : {-1, 0, 1},
                    MaxNrConnsPerUser : {-1, 0, 1}]
    /\ call = NoCall
    /\ InitState

SpecAdmit == InitAdmit /\ [][NextAdmit]_vars

\* ------------------------------------------------------------------------
\* Properties of the service center (specification Spec)
\* ------------------------------------------------------------------------

\* C1: the logout hook of a connection is never fired a second time,
\* whatever leave events are posted for it (by a write's teardown task and
\* by its own reader), also while its user has other live connections.
C1_LogoutNotFiredTwice == \A c \in Conns : nrLogout[c] <= 1

\* C2: close() is called at most once on a connection: the leave posted by
\* the teardown task followed by the leave posted by the connection's
\* reader does not close it twice.
C2_CloseNotCalledTwice == \A c \in Conns : nrClose[c] <= 1

\* C3: after any sequence of completed join and leave events, nrConns equals
\* the sum of the lengths of the registry's entry lists.
C3_NrConnsEqualsRegistry == nrConns = SumLen(tree)

\* C4: no cap that is > 0 is exceeded: no entry holds more than
\* MaxNrConnsPerUser connections, the registry has no more than MaxNrUsers
\* entries and holds no more than MaxNrConns connections; a join that would
\* take the registry past a cap fails, and a join that fails leaves the
\* registry and nrConns as they were.
C4_CapacityNeverExceeded ==
    /\ config.MaxNrConnsPerUser > 0 =>
          \A x \in tree : Len(x.list) <= config.MaxNrConnsPerUser
    /\ config.MaxNrUsers > 0 => Cardinality(tree) <= config.MaxNrUsers
    /\ config.MaxNrConns > 0 => SumLen(tree) <= config.MaxNrConns
    /\ (/\ last.kind = "join"
        /\ ~Member(last.pre, last.conn)
        /\ \/ /\ config.MaxNrConns > 0
              /\ SumLen(last.pre) >= config.MaxNrConns
           \/ /\ config.MaxNrUsers > 0
              /\ ConnsOf(last.pre, last.user) = {}
              /\ Cardinality(last.pre) >= config.MaxNrUsers
           \/ /\ config.MaxNrConnsPerUser > 0
              /\ Cardinality(ConnsOf(last.pre, last.user)) >= config.MaxNrConnsPerUser)
          => last.err # "nil"
    /\ (last.kind = "join" /\ last.err # "nil") =>
          (tree = last.pre /\ nrConns = last.preNr)

\* C4, its case: with every cap set, a join has just been rejected while
\* the registry holds as many connections as MaxNrConns allows.
C4_Witness ==
    /\ config.MaxNrConns > 0
    /\ config.MaxNrUsers > 0
    /\ config.MaxNrConnsPerUser > 0
    /\ last.kind = "join"
    /\ last.err # "nil"
    /\ Cardinality(tree) = config.MaxNrUsers
    /\ \E x \in tree : Len(x.list) = config.MaxNrConnsPerUser

\* C9: the result list of a write holds exactly one Result per connection
\* the registry holds for the target user when the write is serviced, and
\* each Result's Visible is the connection's, whether or not the send failed.
C9_WriteResultsAreSnapshot ==
    last.kind = "write" =>
        LET held == ConnsOf(last.pre, last.user)
        IN  /\ Len(last.res) = Cardinality(held)
            /\ \A c \in held :
                 \E i \in 1..Len(last.res) :
                    /\ last.res[i].ConnId = UniqId(c)
                    /\ last.res[i].Visible = Visible(c)
                    /\ \A j \in 1..Len(last.res) :
                          last.res[j].ConnId = UniqId(c) => j = i
            /\ \A i \in 1..Len(last.res) :
                 \E c \in held : last.res[i].ConnId = UniqId(c)

\* C9, its case: a write to a user with two connections, one of them
\* invisible, one send failed, after another connection has left.
C9_Witness ==
    /\ last.kind = "write"
    /\ Len(last.res) = 2
    /\ \E i \in 1..2 : last.res[i].Err # "nil" /\ ~last.res[i].Visible
    /\ \E c \in Conns : reader[c] = "exited"

\* C10: a write launches one push-fallback task when no visible connection
\* received the message without error, and none otherwise.
C10_FallbackIffNoneReached ==
    last.kind = "write" =>
        last.launched =
            IF \E i \in 1..Len(last.res) :
                  last.res[i].Visible /\ last.res[i].Err = "nil"
            THEN 0 ELSE 1

\* C10, its case: a write whose only successful send went to an invisible
\* connection and whose visible send failed launched the fallback.
C10_Witness ==
    /\ last.kind = "write"
    /\ last.launched = 1
    /\ nrFallback = 1
    /\ \E i \in 1..Len(last.res) : last.res[i].Visible /\ last.res[i].Err # "nil"
    /\ \E i \in 1..Len(last.res) : ~last.res[i].Visible /\ last.res[i].Err = "nil"

\* ------------------------------------------------------------------------
\* Properties of the registry (specification SpecMap)
\* ------------------------------------------------------------------------

SameConn(c, d) == Username(c) = Username(d) /\ UniqId(c) = UniqId(d)

\* C5: DelConn of a connection that is not a member of the registry returns
\* false and leaves the registry unchanged.
C5_DelConnNonMember ==
    (mapLast.op = "del" /\ ~Member(mapLast.pre, mapLast.conn)) =>
        (~mapLast.deleted /\ tree = mapLast.pre)

\* C6: AddConn of a connection whose uniqId equals that of a member of its
\* user's entry returns no error and leaves the registry unchanged, for
\* every setting of the caps.
C6_AddConnIdempotent ==
    (mapLast.op = "add" /\ Member(mapLast.pre, mapLast.conn)) =>
        (mapLast.err = "nil" /\ tree = mapLast.pre)

\* C7 as stated: a successful AddConn(c) followed by DelConn of a connection
\* with the same username and uniqId returns the registry to the state
\* before the AddConn, and the DelConn returns true.
C7_AddThenDelRestores ==
    (/\ mapLast.op = "del"
     /\ mapPrev.op = "add"
     /\ mapPrev.err = "nil"
     /\ SameConn(mapLast.conn, mapPrev.conn)) =>
        (mapLast.deleted /\ View(tree) = View(mapPrev.pre))

\* C7 as amended: the same, for an AddConn(c) that inserted c, that is, when
\* no member of the entry of username(c) had c's uniqId before the AddConn.
C7_InsertThenDelRestores ==
    (/\ mapLast.op = "del"
     /\ mapPrev.op = "add"
     /\ mapPrev.err = "nil"
     /\ ~Member(mapPrev.pre, mapPrev.conn)
     /\ SameConn(mapLast.conn, mapPrev.conn)) =>
        (mapLast.deleted /\ View(tree) = View(mapPrev.pre))

\* C7, its case: a connection was inserted into an entry that held another
\* one, and then deleted through a different object with the same uniqId.
C7_Witness ==
    /\ mapLast.op = "del"
    /\ mapPrev.op = "add"
    /\ mapPrev.err = "nil"
    /\ ~Member(mapPrev.pre, mapPrev.conn)
    /\ SameConn(mapLast.conn, mapPrev.conn)
    /\ mapLast.conn # mapPrev.conn
    /\ ConnsOf(mapPrev.pre, Username(mapPrev.conn)) # {}
    /\ mapLast.deleted

\* C8: every entry of the registry is non-empty, holds only connections of
\* the entry's username, and holds no two connections with the same uniqId;
\* no two entries have the same username.
C8_EntriesWellFormed ==
    /\ \A x \in tree :
          /\ Len(x.list) >= 1
          /\ \A i \in 1..Len(x.list) : Username(x.list[i]) = key(x)
          /\ \A i, j \in 1..Len(x.list) :
                UniqId(x.list[i]) = UniqId(x.list[j]) => i = j
    /\ \A x, y \in tree : key(x) = key(y) => x = y

\* C8, its case: an entry holds two connections and the last call was an
\* AddConn of a connection whose uniqId one of them has.
C8_Witness ==
    /\ mapLast.op = "add"
    /\ mapLast.err = "nil"
    /\ Member(mapLast.pre, mapLast.conn)
    /\ \E x \in tree : Len(x.list) = 2
    /\ Cardinality(tree) = 2

\* ------------------------------------------------------------------------
\* Properties of the push path (specification SpecPush)
\* ------------------------------------------------------------------------

\* The ids the cache returned to the first n calls of task k, in call order.
IdsInCallOrder(k, n) == [j \in 1..n |-> << k.w, j >>]

\* C11 as stated: in a task whose push hook answered true and whose push
\* backend reported n > 0 delivery points, cacheMessage is called exactly n
\* times and, when no call failed, push is called exactly once with the n
\* returned ids in call order; when the hook answered false or n <= 0,
\* neither the cache nor push is called.
C11_CacheCalledExactlyN ==
    \A t \in DOMAIN tasks :
       LET k == tasks[t]
       IN  /\ (k.pc = "done" /\ k.should /\ k.n > 0) =>
                 /\ k.cacheCalls = k.n
                 /\ k.raised = << >> =>
                       (k.pushCalls = 1 /\ k.pushed = IdsInCallOrder(k, k.n))
           /\ (k.pc = "done" /\ (~k.should \/ k.n <= 0)) =>
                 (k.cacheCalls = 0 /\ k.pushCalls = 0)

\* C11 as amended: in such a task cacheMessage is called until a call
\* fails, at most n times: exactly n times when no call fails, and then
\* push is called exactly once with the n returned ids in call order; when
\* a call fails it is the last one and push is not called.  When the hook
\* answered false or n <= 0, neither the cache nor push is called.
C11_CacheCalledUntilFailure ==
    \A t \in DOMAIN tasks :
       LET k == tasks[t]
       IN  /\ k.cacheCalls <= (IF k.n > 0 THEN k.n ELSE 0)
           /\ k.pushCalls <= 1
           /\ (k.pc = "done" /\ k.should /\ k.n > 0) =>
                 IF \E j \in 1..Len(k.raised) : k.raised[j] = "cache"
                 THEN /\ k.pushCalls = 0
                      /\ k.cacheCalls = k.i + 1
                      /\ SubSeq(k.msgIds, 1, k.i) = IdsInCallOrder(k, k.i)
                 ELSE /\ k.cacheCalls = k.n
                      /\ k.pushCalls = 1
                      /\ k.pushed = IdsInCallOrder(k, k.n)
           /\ (k.pc = "done" /\ (~k.should \/ k.n <= 0)) =>
                 (k.cacheCalls = 0 /\ k.pushCalls = 0)

\* C11, its case: a task has ended after two cache calls and a push with
\* the two ids, while another task has ended on a failed cache call.
C11_Witness ==
    /\ \E t \in DOMAIN tasks :
          /\ tasks[t].pc = "done"
          /\ tasks[t].n = 2
          /\ tasks[t].cacheCalls = 2
          /\ tasks[t].pushCalls = 1
          /\ Len(tasks[t].pushed) = 2
    /\ \E t \in DOMAIN tasks :
          /\ tasks[t].pc = "done"
          /\ tasks[t].n = 2
          /\ tasks[t].raised = << "cache" >>

\* C18: every error raised in a push-fallback task, by a cacheMessage call
\* or by Push, is reported through the error hook, and none reaches the
\* caller of SendMessage: the result list replied for the write carries no
\* error of the task.
C18_FallbackErrorsReported ==
    \A t \in DOMAIN tasks :
       LET k == tasks[t]
       IN  /\ k.pc = "done" => k.reported = k.raised
           /\ \A i \in 1..Len(k.res) : k.res[i].Err \notin {"cache", "push"}

\* C19: the event loop is never kept from servicing a write request that is
\* ready by a call to the cache or to the push service: neither by its own
\* Subscribe or Unsubscribe call, nor by waiting in Lock() while a
\* push-fallback task holds the read lock over its nrDeliveryPoints,
\* cacheMessage and Push calls.
C19_LoopNeverBlocked ==
    ~(/\ writeReqs > 0
      /\ \/ loop = "subscribe"
         \/ loop = "Lock" /\ rlock # {})

\* ------------------------------------------------------------------------
\* Properties of the service center after a failed send (specification
\* SpecErr)
\* ------------------------------------------------------------------------

\* C12: when a connection's SendMessage returns an error during a write,
\* the Result for the connection carries the error, the error hook is
\* dispatched exactly once for it, the connection is out of the registry
\* once the leave of the teardown task is serviced, and a write to the same
\* user made after that leave (and after the leave of the connection's
\* reader, if it posted one) has one recipient fewer than the failing write
\* had, when no other connection of the user joined or left in between.
C12_OneFewerRecipient ==
    errWrite.n > 0 =>
        /\ errWrite.resErr
        /\ errWrite.hooks = 1
        /\ errWrite.torn => errWrite.gone
        /\ errWrite.next # -1 => errWrite.next = errWrite.n - 1

\* ------------------------------------------------------------------------
\* Properties of the service center with the caps 2, 2, 3 (specification
\* SpecCaps)
\* ------------------------------------------------------------------------

\* The joins of the scenario, by username and uniqId.
Scenario == << << "u1", "a" >>, << "u1", "b" >>, << "u2", "a" >>, << "u2", "b" >> >>

\* Whether the first k NewConn calls were those of the scenario, in order,
\* with no leave so far.
ScenarioPrefix(k) ==
    /\ joinLog # LogClosed
    /\ k <= Len(joinLog)
    /\ \A j \in 1..k :
          << Username(joinLog[j].conn), UniqId(joinLog[j].conn) >> = Scenario[j]

\* C13 as stated: with the caps 2, 2, 3 and an empty service center, the
\* joins (u1,a), (u1,b), (u2,a), (u2,b) made in that order all succeed, and
\* the next join fails with ErrTooManyConns.
C13_FourJoinsSucceed ==
    /\ \A k \in 1..4 : ScenarioPrefix(k) => joinLog[k].err = "nil"
    /\ (ScenarioPrefix(4) /\ Len(joinLog) >= 5) =>
          joinLog[5].err = "ErrTooManyConns"

\* C13 as amended: the joins (u1,a), (u1,b), (u2,a) made in that order all
\* succeed, and every join after them, that of (u2,b) included, fails with
\* ErrTooManyConns.
C13_ThreeJoinsSucceed ==
    /\ \A k \in 1..3 : ScenarioPrefix(k) => joinLog[k].err = "nil"
    /\ ScenarioPrefix(3) =>
          \A k \in 4..Len(joinLog) : joinLog[k].err = "ErrTooManyConns"

\* C13, its case: after the three joins, (u2,b) has asked to join.
C13_Witness ==
    /\ ScenarioPrefix(4)
    /\ joinLog[4].err = "ErrTooManyConns"
    /\ SumLen(tree) = 3

\* ------------------------------------------------------------------------
\* Properties of the functions applied on their own (specification SpecCall)
\* ------------------------------------------------------------------------

\* C14: push-info synthesis is idempotent: for every message, every extra
\* map (a nil one included) and both values of fwd, a second call of
\* getPushInfo with the same message, extra and fwd returns the same map as
\* the first, so the info a push-fallback task hands to Push equals the
\* info it handed to the should-push hook.
C14_PushInfoIdempotent ==
    (call.fn = "getPushInfo" /\ call.at = 2) => call.second = call.first

\* C15: getPushInfo copies into the push-info every header whose name
\* starts with "notif." but not with "notif.uniqush.", for both values of
\* fwd; only when fwd is true are the copied headers deleted from the
\* message and uniqush.sender and uniqush.sender-service set; no header whose
\* name starts with "notif.uniqush." is copied; notif.uniqush.msgsize is
\* set to the size of the message.
C15_NotifHeadersCopied ==
    (call.fn = "getPushInfo" /\ call.at = 1) =>
        LET h0 == call.msg0.Header
            h1 == call.msg.Header
            e0 == IF call.extra0.nil THEN << >> ELSE call.extra0.map
            info == call.first
            Reserved(k) == HasPrefix(k, << "notif.", "uniqush." >>)
            Notif(k) == HasPrefix(k, << "notif." >>) /\ ~Reserved(k)
            Kept(k) == /\ k \in DOMAIN info <=> k \in DOMAIN e0
                       /\ k \in DOMAIN e0 => info[k] = e0[k]
            sender == << "uniqush.", "sender" >>
            service == << "uniqush.", "sender-service" >>
            msgsize == << "notif.", "uniqush.", "msgsize" >>
        IN  /\ \A k \in DOMAIN h0 :
                  Notif(k) => (k \in DOMAIN info /\ info[k] = h0[k])
            /\ call.fwd =>
                  /\ \A k \in DOMAIN h0 : Notif(k) => k \notin DOMAIN h1
                  /\ info[sender] = call.msg0.Sender
                  /\ info[service] = call.msg0.SenderService
            /\ ~call.fwd => (h1 = h0 /\ Kept(sender) /\ Kept(service))
            /\ \A k \in DOMAIN h0 : (Reserved(k) /\ k # msgsize) => Kept(k)
            /\ info[msgsize] = Sprintf(Size(call.msg))

\* C16 as stated: when the forward hook accepts a forward request, the TTL
\* handed to SendMessage is MaxTTL if the request's TTL is under a second
\* or over MaxTTL, and the request's TTL otherwise, for every TTL and every
\* MaxTTL; the TTL handed on lies between a second and MaxTTL.
C16_TTLWithinSecondAndMax ==
    (call.fn = "ReceiveForward" /\ call.at = 1 /\ call.res.sent) =>
        LET ttl == call.fwdreq.TTL
            maxttl == call.handler.maxTTL
        IN  /\ call.res.ttl = IF ttl < Second \/ ttl > maxttl THEN maxttl ELSE ttl
            /\ Second <= call.res.ttl
            /\ call.res.ttl <= maxttl

\* C16 as amended: the same replacement of the TTL; the TTL handed on lies
\* between a second and MaxTTL when MaxTTL is a second or more, and is
\* MaxTTL when MaxTTL is under a second.
C16_TTLClamped ==
    (call.fn = "ReceiveForward" /\ call.at = 1 /\ call.res.sent) =>
        LET ttl == call.fwdreq.TTL
            maxttl == call.handler.maxTTL
        IN  /\ call.res.ttl = IF ttl < Second \/ ttl > maxttl THEN maxttl ELSE ttl
            /\ maxttl >= Second => (Second <= call.res.ttl /\ call.res.ttl <= maxttl)
            /\ maxttl < Second => call.res.ttl = maxttl

\* C16, its case: an accepted request whose TTL was over a MaxTTL of more
\* than a second has been handed to SendMessage with MaxTTL.
C16_Witness ==
    /\ call.fn = "ReceiveForward"
    /\ call.at = 1
    /\ call.res.sent
    /\ call.handler.maxTTL > Second
    /\ call.fwdreq.TTL > call.handler.maxTTL
    /\ call.res.ttl = call.handler.maxTTL
    /\ last.kind = "write"
    /\ last.user = call.fwdreq.Receiver

\* C17: a deciding hook (forward-request, should-push, should-subscribe,
\* authenticate) whose remote is asked returns true when the remote replies
\* 200, and on any other reply status or a transport failure returns what
\* its default decides: true when the default is 200, false when it is 404.
C17_OtherStatusFallsBackToDefault ==
    (/\ call.fn = "webHook"
     /\ call.at = 1
     /\ call.hook.URL \notin {"", "none"}
     /\ call.marshalled) =>
        call.res = IF ~call.reply.err /\ call.reply.StatusCode = 200
                   THEN TRUE
                   ELSE call.hook.Default = 200

\* ------------------------------------------------------------------------
\* Properties of the reader (specification SpecReader)
\* ------------------------------------------------------------------------

\* C20: the reader of an admitted connection ends on its first read error
\* and posts exactly one leave event, with that read error as its cause; it
\* posts no leave while its reads succeed, and every message it read was
\* handed to the message hook.
C20_ReaderPostsOneLeave ==
    /\ [](\A c \in Conns :
            /\ serve[c].hooks = serve[c].reads
            /\ reader[c] = "none" => serve[c] = NoServe
            /\ reader[c] = "reading" =>
                  (serve[c].err = "nil" /\ serve[c].leaves = << >>)
            /\ reader[c] = "leaving" =>
                  (serve[c].err = "read" /\ serve[c].leaves = << >>)
            /\ reader[c] = "exited" => serve[c].leaves = << "read" >>)
    /\ [][\A c \in Conns :
            serve[c].err # "nil" =>
               (serve'[c].reads = serve[c].reads /\ serve'[c].err = serve[c].err)]_vars

\* C20, its case: a reader has read a message, met a read error and posted
\* its leave, while another reader is still reading after a message.
C20_Witness ==
    /\ \E c \in Conns :
          /\ reader[c] = "exited"
          /\ serve[c].reads >= 1
          /\ serve[c].leaves = << "read" >>
          /\ last.kind = "leave"
          /\ last.conn = c
    /\ \E c \in Conns : reader[c] = "reading" /\ serve[c].reads >= 1

\* ------------------------------------------------------------------------
\* Properties of admission (specification SpecAdmit)
\* ------------------------------------------------------------------------

\* A username that is empty or holds ':' or a newline.
BadName(c) ==
    \/ Username(c) = ""
    \/ \E ch \in Range(Chars(Username(c))) : ch \in {":", "\n"}

\* C21: NewConn returns what the loop replied to the join; the login hook
\* is fired and the reader is started once for an admitted NewConn and never
\* for a rejected one; a NewConn with an empty username or one that holds
\* ':' or a newline is rejected with no join event, and leaves the registry
\* and nrConns as they were.
C21_AdmissionOutcome ==
    /\ [](\A c \in Conns :
            /\ newConn[c] = "admitted" => (nrLogin[c] = 1 /\ reader[c] # "none")
            /\ newConn[c] # "admitted" => (nrLogin[c] = 0 /\ reader[c] = "none")
            /\ BadName(c) => (/\ newConn[c] \in {"idle", "invalid"}
                              /\ c \notin ConnsOf(tree, Username(c)))
            /\ ~BadName(c) => newConn[c] # "invalid")
    /\ [](last.kind = "join" =>
            /\ ~BadName(last.conn)
            /\ newConn[last.conn] = IF last.err = "nil" THEN "admitted"
                                     ELSE "rejected")
    /\ [][\A c \in Conns :
            /\ newConn'[c] = "invalid" /\ newConn[c] = "idle" =>
                  (tree' = tree /\ nrConns' = nrConns /\ last' = last)
            /\ (reader'[c] = "reading" /\ reader[c] # "reading") =>
                  (newConn[c] = "idle" /\ newConn'[c] = "admitted")
            /\ nrLogin'[c] # nrLogin[c] =>
                  (newConn[c] = "idle" /\ newConn'[c] = "admitted")]_vars

\* C21, its case: one NewConn was admitted, one was rejected by the loop,
\* and one was rejected for its username while the registry held a
\* connection.
C21_Witness ==
    /\ \E c \in Conns : newConn[c] = "admitted" /\ nrLogin[c] = 1
    /\ \E c \in Conns : newConn[c] = "rejected"
    /\ \E c \in Conns : newConn[c] = "invalid" /\ BadName(c)
    /\ tree # {}

\* C22: the error of a rejected join follows a fixed precedence:
\* TooManyConns when maxNrConns > 0 and nrConns >= maxNrConns, whatever the
\* registry holds; else TooManyUsers when the user has no entry and the
\* entries have reached maxNrUsers > 0; else TooManyConnForThisUser when
\* the user's entry has reached maxNrConnsPerUser > 0; a cap of 0 or less
\* rejects nothing.
C22_ErrorPrecedence ==
    last.kind = "join" =>
       LET got == GetConn(last.pre, last.user)
       IN  last.err =
             IF config.MaxNrConns > 0 /\ last.preNr >= config.MaxNrConns
             THEN "ErrTooManyConns"
             ELSE IF /\ got.nil
                     /\ config.MaxNrUsers > 0
                     /\ Cardinality(last.pre) >= config.MaxNrUsers
             THEN "ErrTooManyUsers"
             ELSE IF /\ config.MaxNrConnsPerUser > 0
                     /\ Len(got.list) >= config.MaxNrConnsPerUser
             THEN "ErrTooManyConnForThisUser"
             ELSE "nil"

\* C22, its case: a join was replied TooManyConns while its user had no
\* entry and the entries had reached maxNrUsers, and the per-user cap is
\* negative.
C22_Witness ==
    /\ last.kind = "join"
    /\ last.err = "ErrTooManyConns"
    /\ GetConn(last.pre, last.user).nil
    /\ config.MaxNrUsers > 0
    /\ Cardinality(last.pre) >= config.MaxNrUsers
    /\ config.MaxNrConnsPerUser < 0

\* ------------------------------------------------------------------------
\* Properties of the configuration parser (specification SpecCall)
\* ------------------------------------------------------------------------

\* C23: a webhook whose configuration leaves out its timeout is given the
\* timeout of its service (3s when the service sets none); a webhook that
\* states a timeout is given that value.
C23_TimeoutInherited ==
    (call.fn = "setWebHook" /\ call.at = 1) =>
       call.res = IF "timeout" \in DOMAIN call.node
                  THEN call.node.timeout
                  ELSE IF "timeout" \in DOMAIN call.fields
                  THEN call.fields.timeout
                  ELSE 3 * Second

\* ------------------------------------------------------------------------
\* Frame of the leave event (specification Spec)
\* ------------------------------------------------------------------------

\* C24: a leave event for connection c takes out of the registry no
\* connection but one with c's username and uniqId: every other connection
\* the registry held before the event is still held after it, and so is
\* still reached by the writes to its user.
C24_LeaveRemovesOnlyItsConn ==
    last.kind = "leave" =>
       \A u \in Users : \A d \in ConnsOf(last.pre, u) :
          ~SameConn(d, last.conn) => d \in ConnsOf(tree, u)

\* ------------------------------------------------------------------------
\* Properties of the channels (specifications SpecSteps and SpecStepsFair)
\* ------------------------------------------------------------------------

\* No NewConn caller is left without its reply, no SendMessage caller without
\* its results, and no leave event of a reader or of a teardown task is
\* left unreceived.
NoneBlocked ==
    /\ \A c \in StepsOffered : newConn[c] \notin {"sending", "waiting"}
    /\ writeReqs = 0
    /\ loop = "select"
    /\ \A c \in StepsOffered : reader[c] # "leaving"
    /\ \A w \in DOMAIN teardown : teardown[w] = << >>

\* C26: no Subscribe or Unsubscribe call of the loop overlaps with the
\* NrDeliveryPoints, CacheMessage or Push call of a push-fallback task;
\* a task holds the read lock exactly while it is at one of these calls,
\* so it has released it on every way out (no delivery point, a cache
\* failure, the push done); and under the scheduling of FairPush a
\* subscribe event that is pending, or received and waiting in Lock(), gets
\* its Subscribe call.
C26_PushServiceExclusive ==
    /\ [](/\ loop = "subscribe" => rlock = {}
          /\ \A t \in DOMAIN tasks :
                t \in rlock <=>
                   tasks[t].pc \in {"nrDeliveryPoints", "cacheMessage", "pushNotif"})
    /\ (subReqs > 0 \/ loop = "Lock") ~> (loop = "subscribe")

\* C26, its case: two push-fallback tasks hold the read lock at once, the
\* one at NrDeliveryPoints and the other in its cache loop, while the loop
\* waits in Lock() for a subscribe event.
C26_Witness ==
    /\ loop = "Lock"
    /\ Cardinality(rlock) >= 2
    /\ \E t \in rlock : tasks[t].pc = "nrDeliveryPoints"
    /\ \E t \in rlock : tasks[t].pc = "cacheMessage"

C25_LoginBeforeLogout ==
    \A c \in Conns : nrLogout[c] >= 1 => nrLogin[c] >= 1

====
